---- MODULE Spec2Model ----
(***************************************************************************)
(* Gesture producer of the 3D viewer: HandController.predictWebcam turns   *)
(* one hand-landmark detection result per cycle into the shared control    *)
(* record (controlRef) and a notification to the observer (onStateChange). *)
(*                                                                         *)
(* Numbers are fixed point.  Normalized coordinates, distances and         *)
(* rotation velocities are in thousandths (1.0 = 1000), smoothing factors  *)
(* in thousandths, panPosition in ten-thousandths, rounding to nearest.    *)
(* Threshold comparisons of distances are made on exact squares.           *)
(***************************************************************************)
EXTENDS Integers, Sequences, FiniteSets, TLC

\* ------------------------------------------------------------ constants
PINCH_THRESHOLD == 50
FINGER_CONTACT_THRESHOLD == 50
CONTACT_THRESHOLD == 120
ZOOM_SENSITIVITY == 350
DRAG_SCALE_X == 70
DRAG_SCALE_Y == 55
ROTATION_SENSITIVITY == 6
SMOOTHING_FACTOR_ROTATION == 400
ROTATION_DEADZONE == 2

\* hysteresis multiplier 1.3 in tenths, and the tenths it is expressed in
EXIT_FACTOR == 13
ENTER_FACTOR == 10

\* adaptive smoothing: Math.min(0.85, Math.max(0.1, movementDelta * 15))
ADAPTIVE_MIN == 100
ADAPTIVE_MAX == 850
ADAPTIVE_GAIN == 15

\* number of producer cycles explored
MaxCycles == 3

\* number of producer cycles of a held pinch explored
MaxHold == 11

\* sessions with the viewer: producer cycles, viewer frames, content
\* changes and voice messages explored
MaxSessionCycles == 2
MaxFrames == 2
MaxResets == 2
MaxMessages == 1

\* ModelViewer: lerp factors in thousandths, scale limits in thousandths,
\* resting height of the drag group in ten-thousandths
ROTATION_LERP == 200
ZOOM_LERP == 100
SCALE_MIN == 400
SCALE_MAX == 6000
DRAG_LERP == 750
RETURN_LERP == 50
REST_Y == -12000

\* VoiceController: zoom and rotation speeds in thousandths
VOICE_ZOOM == 15
VOICE_ROTATE == 20

\* ------------------------------------------------------------ arithmetic
Pt(px, py) == [x |-> px, y |-> py]

Abs(n) == IF n < 0 THEN -n ELSE n

\* n / d rounded to the nearest integer, d > 0
RoundDiv(n, d) ==
    IF n >= 0 THEN (2 * n + d) \div (2 * d)
              ELSE -((2 * (-n) + d) \div (2 * d))

RECURSIVE SqrtSearch(_, _, _)
SqrtSearch(n, lo, hi) ==
    IF lo >= hi THEN lo
    ELSE LET mid == (lo + hi + 1) \div 2
         IN  IF mid * mid <= n THEN SqrtSearch(n, mid, hi)
                               ELSE SqrtSearch(n, lo, mid - 1)

\* floor of the square root of n, for 0 <= n < 40000^2
ISqrt(n) == SqrtSearch(n, 0, 40000)

\* start + (end - start) * factor, factor in thousandths
lerp(start, end, factor) == start + RoundDiv((end - start) * factor, 1000)

\* square of getDistance(p1, p2)
getDistanceSq(p1, p2) ==
    (p1.x - p2.x) * (p1.x - p2.x) + (p1.y - p2.y) * (p1.y - p2.y)

\* getDistance(p1, p2) < t, for t >= 0
getDistanceLess(p1, p2, t) == getDistanceSq(p1, p2) < t * t

isFingerExtended(landmarks, tipIdx, pipIdx) ==
    landmarks[tipIdx].y < landmarks[pipIdx].y

\* getPinchDistance(landmarks) < t
getPinchDistanceLess(landmarks, t) ==
    getDistanceLess(landmarks[4], landmarks[8], t)

\* ------------------------------------------------------------ gestures
NONE == "NONE"
RIGHT_PINCH_DRAG == "RIGHT_PINCH_DRAG"
LEFT_TWO_FINGER_ROTATE == "LEFT_TWO_FINGER_ROTATE"
ZOOM_IN_PALM == "ZOOM_IN_PALM"
ZOOM_OUT_FIST == "ZOOM_OUT_FIST"
DUAL_HAND_CONTACT == "DUAL_HAND_CONTACT"
CENTER == "CENTER"

\* ------------------------------------------------------------ detection results
\* A hand is a function from the landmark indices the controller reads
\* (0 wrist, 4 thumb tip, 8/6 index tip/joint, 12/10 middle, 16/14 ring,
\* 20/18 pinky) to points.
Hand(wrist, thumbTip, index, middle, ring, pinky) ==
    (0 :> wrist) @@ (4 :> thumbTip) @@ (8 :> index[1]) @@ (6 :> index[2])
    @@ (12 :> middle[1]) @@ (10 :> middle[2]) @@ (16 :> ring[1])
    @@ (14 :> ring[2]) @@ (20 :> pinky[1]) @@ (18 :> pinky[2])

\* Right hand with the wrist at w, thumb and index tips 200 above the wrist
\* and gap apart horizontally; the other fingers curled.
RightHandAt(w, gap) ==
    LET ty == w.y - 200
    IN  Hand(w, Pt(w.x - gap \div 2, ty),
             <<Pt(w.x + (gap - gap \div 2), ty), Pt(w.x, ty + 60)>>,
             <<Pt(w.x + 20, ty + 120), Pt(w.x + 20, ty + 100)>>,
             <<Pt(w.x + 40, ty + 120), Pt(w.x + 40, ty + 100)>>,
             <<Pt(w.x + 60, ty + 120), Pt(w.x + 60, ty + 100)>>)

\* Left hand with the wrist at w, index and middle tips centred on c and
\* gap apart, and each finger extended (tip above its joint) or folded
\* (tip below its joint).
LeftHandAt(w, c, gap, up) ==
    LET pipY(f) == IF up[f] THEN c.y + 100 ELSE c.y - 20
        ix == c.x - gap \div 2
        mx == c.x + (gap - gap \div 2)
    IN  Hand(w, Pt(c.x - 80, c.y + 150),
             <<Pt(ix, c.y), Pt(ix, pipY(1))>>,
             <<Pt(mx, c.y), Pt(mx, pipY(2))>>,
             <<Pt(mx + 40, c.y), Pt(mx + 40, pipY(3))>>,
             <<Pt(mx + 80, c.y), Pt(mx + 80, pipY(4))>>)

RightWrist == Pt(600, 700)

\* thumb-tip / index-tip gaps: pinching, exactly the threshold, open
RightGaps == {20, 50, 80}

RightHands == {RightHandAt(RightWrist, g) : g \in RightGaps}

\* a right hand pinching near the top left corner of the image
CornerWrist == Pt(100, 300)
CornerHand == RightHandAt(CornerWrist, 20)

\* left wrist positions at distance 300, 100, 120, 140 and 156 of RightWrist
FarWrist == Pt(300, 700)
NearWrist == Pt(500, 700)
BandWrists == {Pt(480, 700), Pt(460, 700), Pt(444, 700)}

\* index/middle midpoints of the left hand
Center1 == Pt(300, 400)
Center2 == Pt(425, 465)
Center3 == Pt(300, 464)

TwoUp == <<TRUE, TRUE, FALSE, FALSE>>
AllUp == <<TRUE, TRUE, TRUE, TRUE>>
AllFolded == <<FALSE, FALSE, FALSE, FALSE>>
IndexOnly == <<TRUE, FALSE, FALSE, FALSE>>

LeftHands ==
    {LeftHandAt(w, c, 30, TwoUp) : w \in {FarWrist, NearWrist}, c \in {Center1, Center2}}
    \cup {LeftHandAt(FarWrist, Center3, 30, TwoUp)}
    \cup {LeftHandAt(w, Center1, 70, AllUp) : w \in {FarWrist, NearWrist}}
    \cup {LeftHandAt(w, Center1, 30, AllFolded) : w \in {FarWrist, NearWrist} \cup BandWrists}
    \cup {LeftHandAt(FarWrist, Center1, 30, AllUp),
          LeftHandAt(FarWrist, Center1, 50, AllUp),
          LeftHandAt(FarWrist, Center1, 70, TwoUp),
          LeftHandAt(FarWrist, Center1, 70, AllFolded),
          LeftHandAt(FarWrist, Center1, 70, IndexOnly)}

\* HandLandmarker result: landmarks[i] is a hand, handedness[i] its category
Result(hands, names) == [landmarks |-> hands, handedness |-> names]

Results ==
    {Result(<<>>, <<>>)}
    \cup {Result(<<l>>, <<"Left">>) : l \in LeftHands}
    \cup {Result(<<r>>, <<"Right">>) : r \in RightHands \cup {CornerHand}}
    \cup {Result(<<l, r>>, <<"Left", "Right">>) : l \in LeftHands, r \in RightHands}

\* ------------------------------------------------------------ state
VARIABLES
    smoothRightPinchRef,        \* pinch smoothing anchor
    smoothLeftFingerCenterRef,  \* two-finger smoothing anchor
    wasContactingRef,           \* cached contact flag
    prevLeftPosRef,             \* << >> (null) or <<point>>
    controlRef,                 \* the shared control record
    observer,                   \* last onStateChange(gesture, direction, isDragging)
    result,                     \* detection result of the last cycle
    cycles,                     \* producer cycles run
    contactBefore,              \* wasContactingRef as the last cycle read it
    hasDragged,                 \* some cycle has published a drag
    notified,                   \* onStateChange calls made, and the record at the last call
    stamp,                      \* for each field of controlRef: who wrote it last, and when
    writes,                     \* handlers that have written controlRef so far
    viewer,                     \* the Model component's refs and group transforms
    snapshot,                   \* << >> or <<stamp>> as the last viewer frame read the record
    frames,                     \* viewer frames run
    resets,                     \* content changes made
    messages,                   \* voice messages handled
    timers,                     \* pending zoom timeouts of the voice handler, oldest first,
                                \* each with the number of the write that started it
    modelUrl,                   \* App's modelUrl state, "" for null
    urlSetAfter,                \* writes made when modelUrl was last set, -1 at the start
    reconstruction,             \* handleImageTo3D: "idle", or the await the run stands at
    fileName,                   \* App's fileName state
    aiAnalysis,                 \* App's status message
    cameraActive,               \* App's cameraActive state: HandController is rendered
    instances                   \* the HandController instances mounted so far, in order

vars == <<smoothRightPinchRef, smoothLeftFingerCenterRef, wasContactingRef,
          prevLeftPosRef, controlRef, observer, result, cycles, contactBefore,
          hasDragged, notified, stamp, writes, viewer, snapshot, frames, resets,
          messages, timers, modelUrl, urlSetAfter, reconstruction, fileName, aiAnalysis,
          cameraActive, instances>>

lifecycleVars == <<cameraActive, instances>>

contentVars == <<modelUrl, urlSetAfter, reconstruction, fileName, aiAnalysis>>

viewerVars == <<viewer, snapshot, frames>>
producerVars == <<smoothRightPinchRef, smoothLeftFingerCenterRef, wasContactingRef,
                  prevLeftPosRef, observer, result, cycles, contactBefore, hasDragged,
                  notified>>

\* ------------------------------------------------------------ predictWebcam
\* the last hand of the result with the given handedness, << >> when none
HandOf(res, name) ==
    LET idx == {i \in 1..Len(res.landmarks) : res.handedness[i] = name}
    IN  IF idx = {} THEN <<>>
        ELSE <<res.landmarks[CHOOSE i \in idx : \A j \in idx : j <= i]>>

leftHandLandmarks(res) == HandOf(res, "Left")
rightHandLandmarks(res) == HandOf(res, "Right")

\* variant: one threshold for entering and leaving (no hysteresis)
ContactThreshold10_NoHysteresis(was) == CONTACT_THRESHOLD * ENTER_FACTOR

\* 10 x the hysteresis threshold
ContactThreshold10(was) ==
    IF was THEN CONTACT_THRESHOLD * EXIT_FACTOR ELSE CONTACT_THRESHOLD * ENTER_FACTOR

\* variant: out of contact, dist <= threshold enters
isContacting_EnterInclusive(res, was) ==
    /\ HandOf(res, "Left") # <<>>
    /\ HandOf(res, "Right") # <<>>
    /\ LET d == ENTER_FACTOR * ENTER_FACTOR
                    * getDistanceSq(HandOf(res, "Left")[1][0], HandOf(res, "Right")[1][0])
           t == IF was THEN CONTACT_THRESHOLD * EXIT_FACTOR
                       ELSE CONTACT_THRESHOLD * ENTER_FACTOR
       IN  IF was THEN d < t * t ELSE d <= t * t

\* variant: dist <= threshold keeps or enters contact
isContacting_Inclusive(res, was) ==
    /\ HandOf(res, "Left") # <<>>
    /\ HandOf(res, "Right") # <<>>
    /\ LET leftWrist == HandOf(res, "Left")[1][0]
           rightWrist == HandOf(res, "Right")[1][0]
           t == IF was THEN CONTACT_THRESHOLD * EXIT_FACTOR
                       ELSE CONTACT_THRESHOLD * ENTER_FACTOR
       IN  ENTER_FACTOR * ENTER_FACTOR * getDistanceSq(leftWrist, rightWrist) <= t * t

isContacting(res, was) ==
    /\ leftHandLandmarks(res) # <<>>
    /\ rightHandLandmarks(res) # <<>>
    /\ LET leftWrist == leftHandLandmarks(res)[1][0]
           rightWrist == rightHandLandmarks(res)[1][0]
           t == ContactThreshold10(was)
       IN  ENTER_FACTOR * ENTER_FACTOR * getDistanceSq(leftWrist, rightWrist) < t * t

\* variant: the flag is assigned only on frames with both hands
NextWasContacting_KeepOnMissingHand(res, was) ==
    IF leftHandLandmarks(res) # <<>> /\ rightHandLandmarks(res) # <<>>
    THEN isContacting(res, was) ELSE was

\* variant: the flag is assigned on frames without hands too
NextWasContacting_EveryFrame(res, was) == isContacting(res, was)

\* wasContactingRef after the cycle: assigned only when the result has hands
NextWasContacting(res, was) ==
    IF Len(res.landmarks) > 0 THEN isContacting(res, was) ELSE was

\* variant: the right hand is evaluated on contact frames too
RightPinches_OnContact(res, was) ==
    /\ rightHandLandmarks(res) # <<>>
    /\ getPinchDistanceLess(rightHandLandmarks(res)[1], PINCH_THRESHOLD)

\* the right hand is evaluated and pinches
RightPinches(res, was) ==
    /\ ~isContacting(res, was)
    /\ rightHandLandmarks(res) # <<>>
    /\ getPinchDistanceLess(rightHandLandmarks(res)[1], PINCH_THRESHOLD)

\* the right hand is evaluated and does not pinch
RightReleased(res, was) ==
    /\ ~isContacting(res, was)
    /\ rightHandLandmarks(res) # <<>>
    /\ ~getPinchDistanceLess(rightHandLandmarks(res)[1], PINCH_THRESHOLD)

\* variant: Math.min(0.85, movementDelta * 15), no floor
adaptiveFactor_NoFloor(anchor, raw) ==
    LET f == ISqrt(ADAPTIVE_GAIN * ADAPTIVE_GAIN * getDistanceSq(anchor, raw))
    IN  IF f > ADAPTIVE_MAX THEN ADAPTIVE_MAX ELSE f

\* variant: Math.max(0.1, movementDelta * 15), no ceiling
adaptiveFactor_NoCeiling(anchor, raw) ==
    LET f == ISqrt(ADAPTIVE_GAIN * ADAPTIVE_GAIN * getDistanceSq(anchor, raw))
    IN  IF f < ADAPTIVE_MIN THEN ADAPTIVE_MIN ELSE f

\* Math.min(0.85, Math.max(0.1, movementDelta * 15)) in thousandths
adaptiveFactor(anchor, raw) ==
    LET d2 == getDistanceSq(anchor, raw)
        f == ISqrt(ADAPTIVE_GAIN * ADAPTIVE_GAIN * d2)
    IN  IF f < ADAPTIVE_MIN THEN ADAPTIVE_MIN
        ELSE IF f > ADAPTIVE_MAX THEN ADAPTIVE_MAX ELSE f

\* raw pinch centre
RawPinch(landmarks) ==
    Pt(RoundDiv(landmarks[4].x + landmarks[8].x, 2),
       RoundDiv(landmarks[4].y + landmarks[8].y, 2))

\* variant: a released pinch re-anchors to the thumb/index midpoint
NextSmoothRightPinch_ToMidpoint(res, was, anchor) ==
    IF RightPinches(res, was)
    THEN LET raw == RawPinch(rightHandLandmarks(res)[1])
             f == adaptiveFactor(anchor, raw)
         IN  Pt(lerp(anchor.x, raw.x, f), lerp(anchor.y, raw.y, f))
    ELSE IF RightReleased(res, was)
    THEN RawPinch(rightHandLandmarks(res)[1])
    ELSE anchor

\* the pinch anchor after the cycle
NextSmoothRightPinch(res, was, anchor) ==
    IF RightPinches(res, was)
    THEN LET raw == RawPinch(rightHandLandmarks(res)[1])
             f == adaptiveFactor(anchor, raw)
         IN  Pt(lerp(anchor.x, raw.x, f), lerp(anchor.y, raw.y, f))
    ELSE IF RightReleased(res, was)
    THEN LET wrist == rightHandLandmarks(res)[1][0] IN Pt(wrist.x, wrist.y)
    ELSE anchor

\* variant: the horizontal axis is not mirrored
PanTarget_Unmirrored(anchor) ==
    Pt((anchor.x - 500) * DRAG_SCALE_X, (500 - anchor.y) * DRAG_SCALE_Y)

\* variant: the anchor is not centred before scaling
PanTarget_Uncentred(anchor) ==
    Pt((1000 - anchor.x) * DRAG_SCALE_X, (1000 - anchor.y) * DRAG_SCALE_Y)

\* targetX, targetY of the dragged group
PanTarget(anchor) ==
    Pt((500 - anchor.x) * DRAG_SCALE_X, (500 - anchor.y) * DRAG_SCALE_Y)

\* variant: the pan target is taken from the anchor before the smoothing step
NextPanPosition_StaleAnchor(res, was, anchor, pan) ==
    IF RightPinches(res, was) THEN PanTarget(anchor) ELSE pan

\* variant: the release branch publishes the re-anchored position
NextPanPosition_OnRelease(res, was, anchor, pan) ==
    IF RightPinches(res, was) \/ RightReleased(res, was)
    THEN PanTarget(NextSmoothRightPinch(res, was, anchor))
    ELSE pan

\* controlRef.current.panPosition after the cycle
NextPanPosition(res, was, anchor, pan) ==
    IF RightPinches(res, was)
    THEN PanTarget(NextSmoothRightPinch(res, was, anchor))
    ELSE pan

\* the left hand is evaluated
LeftEvaluated(res, was) ==
    ~isContacting(res, was) /\ leftHandLandmarks(res) # <<>>

rawFingerCenter(landmarks) ==
    Pt(RoundDiv(landmarks[8].x + landmarks[12].x, 2),
       RoundDiv(landmarks[8].y + landmarks[12].y, 2))

\* variant: the anchor is advanced only in the rotate pose
NextSmoothLeftFingerCenter_RotateOnly(res, was, anchor) ==
    IF /\ LeftEvaluated(res, was)
       /\ isFingerExtended(leftHandLandmarks(res)[1], 8, 6)
       /\ isFingerExtended(leftHandLandmarks(res)[1], 12, 10)
       /\ getDistanceLess(leftHandLandmarks(res)[1][8], leftHandLandmarks(res)[1][12],
                          FINGER_CONTACT_THRESHOLD)
    THEN LET raw == rawFingerCenter(leftHandLandmarks(res)[1])
         IN  Pt(lerp(anchor.x, raw.x, SMOOTHING_FACTOR_ROTATION),
                lerp(anchor.y, raw.y, SMOOTHING_FACTOR_ROTATION))
    ELSE anchor

\* the two-finger anchor after the cycle
NextSmoothLeftFingerCenter(res, was, anchor) ==
    IF LeftEvaluated(res, was)
    THEN LET raw == rawFingerCenter(leftHandLandmarks(res)[1])
         IN  Pt(lerp(anchor.x, raw.x, SMOOTHING_FACTOR_ROTATION),
                lerp(anchor.y, raw.y, SMOOTHING_FACTOR_ROTATION))
    ELSE anchor

isIndexUp(landmarks) == isFingerExtended(landmarks, 8, 6)
isMiddleUp(landmarks) == isFingerExtended(landmarks, 12, 10)
isRingUp(landmarks) == isFingerExtended(landmarks, 16, 14)
isPinkyUp(landmarks) == isFingerExtended(landmarks, 20, 18)
fingersTouch(landmarks) ==
    getDistanceLess(landmarks[8], landmarks[12], FINGER_CONTACT_THRESHOLD)

\* the rotate branch condition of the left hand
RotatePose(landmarks) ==
    fingersTouch(landmarks) /\ isIndexUp(landmarks) /\ isMiddleUp(landmarks)

\* variant: the open palm is tested first and without the distance test
LeftGesture_PalmFirst(landmarks) ==
    IF /\ isIndexUp(landmarks) /\ isMiddleUp(landmarks)
       /\ isRingUp(landmarks) /\ isPinkyUp(landmarks)
    THEN ZOOM_IN_PALM
    ELSE IF RotatePose(landmarks) THEN LEFT_TWO_FINGER_ROTATE
    ELSE IF /\ ~isIndexUp(landmarks) /\ ~isMiddleUp(landmarks)
            /\ ~isRingUp(landmarks) /\ ~isPinkyUp(landmarks)
    THEN ZOOM_OUT_FIST
    ELSE NONE

\* the gesture the left hand assigns, NONE when it assigns none
LeftGesture(landmarks) ==
    IF RotatePose(landmarks) THEN LEFT_TWO_FINGER_ROTATE
    ELSE IF /\ isIndexUp(landmarks) /\ isMiddleUp(landmarks)
            /\ isRingUp(landmarks) /\ isPinkyUp(landmarks)
            /\ ~fingersTouch(landmarks)
    THEN ZOOM_IN_PALM
    ELSE IF /\ ~isIndexUp(landmarks) /\ ~isMiddleUp(landmarks)
            /\ ~isRingUp(landmarks) /\ ~isPinkyUp(landmarks)
    THEN ZOOM_OUT_FIST
    ELSE NONE

\* variant: the rotate label needs a rotation history
newGesture_NeedsHistory(res, was) ==
    IF isContacting(res, was) THEN DUAL_HAND_CONTACT
    ELSE LET afterRight == IF RightPinches(res, was) THEN RIGHT_PINCH_DRAG ELSE NONE
             left == IF leftHandLandmarks(res) = <<>> THEN NONE
                     ELSE LeftGesture(leftHandLandmarks(res)[1])
         IN  IF left = NONE \/ (left = LEFT_TWO_FINGER_ROTATE /\ prevLeftPosRef = <<>>)
             THEN afterRight
             ELSE left

\* variant: a left-hand gesture does not replace RIGHT_PINCH_DRAG
newGesture_RightWins(res, was) ==
    IF isContacting(res, was) THEN DUAL_HAND_CONTACT
    ELSE IF RightPinches(res, was) THEN RIGHT_PINCH_DRAG
    ELSE IF leftHandLandmarks(res) # <<>>
    THEN LeftGesture(leftHandLandmarks(res)[1])
    ELSE NONE

\* newGesture at the end of the cycle
newGesture(res, was) ==
    IF isContacting(res, was) THEN DUAL_HAND_CONTACT
    ELSE LET afterRight == IF RightPinches(res, was) THEN RIGHT_PINCH_DRAG ELSE NONE
         IN  IF leftHandLandmarks(res) # <<>>
                /\ LeftGesture(leftHandLandmarks(res)[1]) # NONE
             THEN LeftGesture(leftHandLandmarks(res)[1])
             ELSE afterRight

\* variant: the delta is taken on every evaluated left hand, rotate pose or not
rotVel_AnyPose(res, was, anchor, prev) ==
    IF LeftEvaluated(res, was) /\ prev # <<>>
    THEN LET smooth == NextSmoothLeftFingerCenter(res, was, anchor)
             deltaX == smooth.x - prev[1].x
             deltaY == smooth.y - prev[1].y
         IN  IF Abs(deltaX) > ROTATION_DEADZONE \/ Abs(deltaY) > ROTATION_DEADZONE
             THEN Pt(deltaY * ROTATION_SENSITIVITY, -deltaX * ROTATION_SENSITIVITY)
             ELSE Pt(0, 0)
    ELSE Pt(0, 0)

\* variant: the deadzone is applied to each axis on its own
rotVel_PerAxisDeadzone(res, was, anchor, prev) ==
    IF LeftEvaluated(res, was) /\ RotatePose(leftHandLandmarks(res)[1]) /\ prev # <<>>
    THEN LET smooth == NextSmoothLeftFingerCenter(res, was, anchor)
             deltaX == smooth.x - prev[1].x
             deltaY == smooth.y - prev[1].y
         IN  Pt(IF Abs(deltaY) > ROTATION_DEADZONE
                THEN deltaY * ROTATION_SENSITIVITY ELSE 0,
                IF Abs(deltaX) > ROTATION_DEADZONE
                THEN -deltaX * ROTATION_SENSITIVITY ELSE 0)
    ELSE Pt(0, 0)

\* {x: rotVelX, y: rotVelY} at the end of the cycle
rotVel(res, was, anchor, prev) ==
    IF LeftEvaluated(res, was) /\ RotatePose(leftHandLandmarks(res)[1]) /\ prev # <<>>
    THEN LET smooth == NextSmoothLeftFingerCenter(res, was, anchor)
             deltaX == smooth.x - prev[1].x
             deltaY == smooth.y - prev[1].y
         IN  IF Abs(deltaX) > ROTATION_DEADZONE \/ Abs(deltaY) > ROTATION_DEADZONE
             THEN Pt(deltaY * ROTATION_SENSITIVITY, -deltaX * ROTATION_SENSITIVITY)
             ELSE Pt(0, 0)
    ELSE Pt(0, 0)

\* variant: the history is replaced only when the delta leaves the deadzone
NextPrevLeftPos_OutsideDeadzone(res, was, anchor, prev) ==
    IF LeftEvaluated(res, was)
    THEN IF RotatePose(leftHandLandmarks(res)[1])
         THEN LET smooth == NextSmoothLeftFingerCenter(res, was, anchor)
              IN  IF prev = <<>>
                     \/ Abs(smooth.x - prev[1].x) > ROTATION_DEADZONE
                     \/ Abs(smooth.y - prev[1].y) > ROTATION_DEADZONE
                  THEN <<smooth>>
                  ELSE prev
         ELSE <<>>
    ELSE prev

\* prevLeftPosRef after the cycle
NextPrevLeftPos(res, was, anchor, prev) ==
    IF LeftEvaluated(res, was)
    THEN IF RotatePose(leftHandLandmarks(res)[1])
         THEN <<NextSmoothLeftFingerCenter(res, was, anchor)>>
         ELSE <<>>
    ELSE prev

\* variant: without an evaluated left hand the published zoomSpeed is kept
newZoomSpeed_Residual(res, was) ==
    IF LeftEvaluated(res, was)
    THEN LET g == LeftGesture(leftHandLandmarks(res)[1])
         IN  IF g = ZOOM_IN_PALM THEN ZOOM_SENSITIVITY
             ELSE IF g = ZOOM_OUT_FIST THEN -ZOOM_SENSITIVITY ELSE 0
    ELSE controlRef.zoomSpeed

\* variant: the fist zooms in as the palm does
newZoomSpeed_Sign(res, was) ==
    IF LeftEvaluated(res, was)
    THEN LET g == LeftGesture(leftHandLandmarks(res)[1])
         IN  IF g = ZOOM_IN_PALM \/ g = ZOOM_OUT_FIST THEN ZOOM_SENSITIVITY ELSE 0
    ELSE 0

\* newZoomSpeed at the end of the cycle
newZoomSpeed(res, was) ==
    IF LeftEvaluated(res, was)
    THEN LET g == LeftGesture(leftHandLandmarks(res)[1])
         IN  IF g = ZOOM_IN_PALM THEN ZOOM_SENSITIVITY
             ELSE IF g = ZOOM_OUT_FIST THEN -ZOOM_SENSITIVITY ELSE 0
    ELSE 0

\* the fields of controlRef every handler's writes are recorded for
Fields == {"rotationSpeed", "rotationVelocity", "zoomSpeed", "panPosition", "isDragging"}

\* the stamps after the handler `by`, the n-th to write, has written fields
Stamped(st, fields, by, n) ==
    [f \in Fields |-> IF f \in fields THEN [by |-> by, at |-> n] ELSE st[f]]

\* variant: zoomSpeed is written only when a left hand was evaluated
CycleWrites_ZoomWithLeftHand(res, was) ==
    {"rotationVelocity", "isDragging"}
        \cup (IF LeftEvaluated(res, was) THEN {"zoomSpeed"} ELSE {})
        \cup (IF RightPinches(res, was) THEN {"panPosition"} ELSE {})

\* the fields of controlRef one cycle assigns
CycleWrites(res, was) ==
    {"rotationVelocity", "zoomSpeed", "isDragging"}
        \cup (IF RightPinches(res, was) THEN {"panPosition"} ELSE {})

\* variant: the observer is called only when its arguments change
Notify_OnChange(n, last, args, ctl) ==
    IF args = last THEN n ELSE [count |-> n.count + 1, control |-> <<ctl>>]

\* onStateChangeRef.current(newGesture, newDirection, isDragging), called
\* when the record is ctl; last are the arguments of the call before
Notify(n, last, args, ctl) == [count |-> n.count + 1, control |-> <<ctl>>]

\* variant: the observer is called before the record is written
Published_BeforeWrites(before, after) == before

\* the record at the time the observer is called
Published(before, after) == after

\* The body of predictWebcam on the detection result res.
Cycle(res) ==
    LET was == wasContactingRef
        dragging == RightPinches(res, was)
        pinch == NextSmoothRightPinch(res, was, smoothRightPinchRef)
        args == [gesture |-> newGesture(res, was), direction |-> CENTER,
                 isDragging |-> dragging]
        ctl == [controlRef EXCEPT
                   !.rotationVelocity =
                       <<rotVel(res, was, smoothLeftFingerCenterRef, prevLeftPosRef)>>,
                   !.zoomSpeed = newZoomSpeed(res, was),
                   !.isDragging = dragging,
                   !.panPosition =
                       NextPanPosition(res, was, smoothRightPinchRef, @)]
    IN  /\ cycles' = cycles + 1
        /\ result' = res
        /\ wasContactingRef' = NextWasContacting(res, was)
        /\ smoothRightPinchRef' = pinch
        /\ smoothLeftFingerCenterRef' =
               NextSmoothLeftFingerCenter(res, was, smoothLeftFingerCenterRef)
        /\ prevLeftPosRef' =
               NextPrevLeftPos(res, was, smoothLeftFingerCenterRef, prevLeftPosRef)
        /\ controlRef' = ctl
        /\ stamp' = Stamped(stamp, CycleWrites(res, was), "producer", writes + 1)
        /\ writes' = writes + 1
        /\ observer' = args
        /\ notified' = Notify(notified, observer, args, Published(controlRef, ctl))
        /\ contactBefore' = was
        /\ hasDragged' = (hasDragged \/ dragging)
        /\ UNCHANGED <<viewerVars, resets, messages, timers, contentVars>>

\* One producer cycle on the detection result res.
predictWebcam(res) == cycles < MaxCycles /\ Cycle(res) /\ UNCHANGED lifecycleVars

\* One HandController instance as its effect leaves it (lines 15-20, 54-82):
\* the effect's mounted flag, the await setupMediaPipe or startWebcam stands
\* at, handLandmarkerRef ("null", "open", "closed"), whether a camera stream
\* is held, whether videoRef is attached, whether the loadeddata listener
\* waits, requestRef, the animation frames requested and not yet run or
\* cancelled, the cycles the instance has run and the await it was torn
\* down at ("" while mounted).
NewInstance ==
    [mounted |-> TRUE, phase |-> "resolving", handLandmarkerRef |-> "null",
     stream |-> FALSE, videoRef |-> TRUE, listening |-> FALSE, requestRef |-> 0,
     pending |-> {}, ran |-> 0, tornAt |-> ""]

\* ------------------------------------------------------------ specification
Init ==
    /\ smoothRightPinchRef = Pt(500, 500)
    /\ smoothLeftFingerCenterRef = Pt(500, 500)
    /\ wasContactingRef = FALSE
    /\ prevLeftPosRef = <<>>
    /\ controlRef = [rotationSpeed |-> 0, rotationVelocity |-> <<>>, zoomSpeed |-> 0,
                     panPosition |-> Pt(0, 0), isDragging |-> FALSE]
    /\ observer = [gesture |-> NONE, direction |-> CENTER, isDragging |-> FALSE]
    /\ result = Result(<<>>, <<>>)
    /\ cycles = 0
    /\ contactBefore = FALSE
    /\ hasDragged = FALSE
    /\ notified = [count |-> 0, control |-> <<>>]
    /\ stamp = [f \in Fields |-> [by |-> "reset", at |-> 0]]
    /\ writes = 0
    /\ viewer = [smoothedRotVel |-> Pt(0, 0), rotation |-> Pt(0, 0), scale |-> 1000,
                 position |-> Pt(0, REST_Y), threw |-> FALSE]
    /\ snapshot = <<>>
    /\ frames = 0
    /\ resets = 0
    /\ messages = 0
    /\ timers = <<>>
    /\ modelUrl = ""
    /\ urlSetAfter = -1
    /\ reconstruction = "idle"
    /\ fileName = ""
    /\ aiAnalysis = "waiting"
    /\ cameraActive = TRUE
    /\ instances = <<NewInstance>>

Next == \E res \in Results : predictWebcam(res)

Spec == Init /\ [][Next]_vars

\* ------------------------------------------------------------ held pinch
\* Right-hand-only sessions: an optional first frame with the right hand
\* open (the anchor jumps to its wrist), then the right hand pinching with
\* one raw midpoint on every following frame.
HoldPinchWrists == {Pt(500, 700), Pt(600, 700), Pt(350, 500)}
HoldOpenWrists ==
    {Pt(500, 700), Pt(600, 700), Pt(350, 500), Pt(505, 500), Pt(505, 510),
     Pt(900, 900), Pt(493, 499)}

HoldPinchResults == {Result(<<RightHandAt(w, 20)>>, <<"Right">>) : w \in HoldPinchWrists}
HoldOpenResults == {Result(<<RightHandAt(w, 80)>>, <<"Right">>) : w \in HoldOpenWrists}

\* the first frame of the session: the right hand open
holdOpen(res) == cycles = 0 /\ Cycle(res) /\ UNCHANGED lifecycleVars

\* a pinch frame: the first one, or the last frame's pinch held
holdPinch(res) ==
    /\ cycles < MaxHold
    /\ result \in HoldPinchResults => res = result
    /\ Cycle(res)
    /\ UNCHANGED lifecycleVars

NextHold ==
    \/ \E res \in HoldOpenResults : holdOpen(res)
    \/ \E res \in HoldPinchResults : holdPinch(res)

SpecHold == Init /\ [][NextHold]_vars

\* ------------------------------------------------------------ session
\* The producer, the viewer's frame callback and the content changes of
\* App share controlRef.  Each callback runs to completion on the one
\* JavaScript thread, so each is one step.
SessionResults ==
    { Result(<<>>, <<>>),
      Result(<<LeftHandAt(FarWrist, Center1, 30, TwoUp)>>, <<"Left">>),
      Result(<<LeftHandAt(FarWrist, Center2, 30, TwoUp)>>, <<"Left">>),
      Result(<<LeftHandAt(FarWrist, Center1, 80, AllUp)>>, <<"Left">>),
      Result(<<RightHandAt(RightWrist, 20)>>, <<"Right">>) }

\* Math.sin(state.clock.elapsedTime * 0.3) * 0.001 in thousandths
IdleSteps == {-1, 0, 1}

\* a producer cycle of the session
produce(res) == cycles < MaxSessionCycles /\ Cycle(res) /\ UNCHANGED lifecycleVars

\* the record resetControls assigns to controlRef.current
RestRecord ==
    [rotationSpeed |-> 0, rotationVelocity |-> <<>>, zoomSpeed |-> 0,
     panPosition |-> Pt(0, 0), isDragging |-> FALSE]

\* resetControls(), called by the handlers that change the content
resetControls ==
    /\ resets < MaxResets
    /\ resets' = resets + 1
    /\ controlRef' = RestRecord
    /\ stamp' = Stamped(stamp, Fields, "reset", writes + 1)
    /\ writes' = writes + 1
    /\ UNCHANGED <<producerVars, viewerVars, messages, timers, lifecycleVars>>

\* the model URLs the handlers set: an object URL of an uploaded file, the
\* demo of the sidebar, the two models handleImageTo3D chooses from
LocalFiles == {"blob:local"}
DemoModels == {"DamagedHelmet.glb"}
ReconstructedModels == {"DamagedHelmet.glb", "BoomBox.glb"}

\* handleFileUpload on a chosen file
handleFileUpload(url) ==
    /\ resetControls
    /\ modelUrl' = url
    /\ urlSetAfter' = writes
    /\ fileName' = "local.glb"
    /\ aiAnalysis' = "loaded"
    /\ UNCHANGED reconstruction

\* variant: the demo model is set without resetting the controls
loadDemoModel_NoReset(url) ==
    /\ modelUrl' = url
    /\ urlSetAfter' = writes
    /\ fileName' = "demo"
    /\ aiAnalysis' = "demo"
    /\ UNCHANGED <<producerVars, viewerVars, controlRef, stamp, writes, resets, messages,
                   timers, lifecycleVars, reconstruction>>

\* loadDemoModel(url, name)
loadDemoModel(url) ==
    /\ resetControls
    /\ modelUrl' = url
    /\ urlSetAfter' = writes
    /\ fileName' = "demo"
    /\ aiAnalysis' = "demo"
    /\ UNCHANGED reconstruction

\* what a step of handleImageTo3D other than the model assignment leaves
\* alone
runLeaves == <<producerVars, viewerVars, controlRef, stamp, writes, resets, messages, timers,
               lifecycleVars, modelUrl, urlSetAfter, fileName>>

\* handleImageTo3D up to its first await, on the FileReader; the input is
\* disabled while isProcessing
handleImageTo3D ==
    /\ reconstruction = "idle"
    /\ reconstruction' = "reading"
    /\ aiAnalysis' = "scanning"
    /\ UNCHANGED runLeaves

\* reader.onload resolves base64Promise: generateContent is awaited
fileLoaded ==
    /\ reconstruction = "reading"
    /\ reconstruction' = "running"
    /\ UNCHANGED <<runLeaves, aiAnalysis>>

\* the reader fails: it fires error, for which there is no handler, so
\* base64Promise is never settled and the handler never resumes
fileReadFailed ==
    /\ reconstruction = "reading"
    /\ reconstruction' = "stalled"
    /\ UNCHANGED <<runLeaves, aiAnalysis>>

\* generateContent resolves: the step timers are awaited
analysisDone ==
    /\ reconstruction = "running"
    /\ reconstruction' = "stepping"
    /\ aiAnalysis' = "analysis"
    /\ UNCHANGED runLeaves

\* handleImageTo3D after its last await: the selected model is set, and
\* the finally block starts the timeout
reconstructionDone(url) ==
    /\ reconstruction = "stepping"
    /\ reconstruction' = "settling"
    /\ resetControls
    /\ modelUrl' = url
    /\ urlSetAfter' = writes
    /\ fileName' = "EDU_3D.glb"
    /\ UNCHANGED aiAnalysis

\* variant: the catch resets the controls
reconstructionFailed_Resets ==
    /\ reconstruction = "running"
    /\ reconstruction' = "settling"
    /\ aiAnalysis' = "failed"
    /\ resetControls
    /\ UNCHANGED <<modelUrl, urlSetAfter, fileName>>

\* the client constructor throws or generateContent rejects: the catch
\* sets the failure message, and the finally block starts the timeout
reconstructionFailed ==
    /\ reconstruction = "running"
    /\ reconstruction' = "settling"
    /\ aiAnalysis' = "failed"
    /\ UNCHANGED runLeaves

\* setTimeout(() => setIsProcessing(false), 500)
processingTimeout ==
    /\ reconstruction = "settling"
    /\ reconstruction' = "idle"
    /\ UNCHANGED <<runLeaves, aiAnalysis>>

\* App's isProcessing state
isProcessing == reconstruction # "idle"

\* dragGroupRef.current.position after one frame callback that read ctl
NextPosition(pos, ctl) ==
    IF ctl.isDragging
    THEN Pt(lerp(pos.x, ctl.panPosition.x, DRAG_LERP),
            lerp(pos.y, REST_Y + ctl.panPosition.y, DRAG_LERP))
    ELSE Pt(lerp(pos.x, 0, RETURN_LERP),
            lerp(pos.y, REST_Y, RETURN_LERP))

\* variant: the scale is clamped from above only
clampedScale_NoFloor(newScale) ==
    IF newScale > SCALE_MAX THEN SCALE_MAX ELSE newScale

\* Math.max(0.4, Math.min(6.0, newScale))
clampedScale(newScale) ==
    IF newScale > SCALE_MAX THEN SCALE_MAX
    ELSE IF newScale < SCALE_MIN THEN SCALE_MIN ELSE newScale

\* the group transforms after one frame callback that read ctl
NextViewer(v, ctl, idle) ==
    LET rv == ctl.rotationVelocity[1]
        sm == Pt(lerp(v.smoothedRotVel.x, rv.x, ROTATION_LERP),
                 lerp(v.smoothedRotVel.y, rv.y, ROTATION_LERP))
        turned == IF Abs(sm.x) > 0 \/ Abs(sm.y) > 0
                  THEN Pt(v.rotation.x + sm.x, v.rotation.y + sm.y)
                  ELSE v.rotation
        scaled == IF ctl.zoomSpeed # 0
                  THEN clampedScale(lerp(v.scale, v.scale + ctl.zoomSpeed, ZOOM_LERP))
                  ELSE v.scale
        idled == IF rv.x = 0 /\ rv.y = 0 /\ ~ctl.isDragging
                 THEN Pt(turned.x, turned.y + idle)
                 ELSE turned
    IN  [smoothedRotVel |-> sm, rotation |-> idled, scale |-> scaled,
         position |-> NextPosition(v.position, ctl), threw |-> FALSE]

\* variant: the callback clears the zoomSpeed it has applied
useFrame_ConsumesZoom(idle) ==
    /\ modelUrl # ""
    /\ frames < MaxFrames
    /\ frames' = frames + 1
    /\ snapshot' = <<stamp>>
    /\ viewer' = IF controlRef.rotationVelocity = <<>>
                 THEN [viewer EXCEPT !.threw = TRUE]
                 ELSE NextViewer(viewer, controlRef, idle)
    /\ controlRef' = IF controlRef.rotationVelocity = <<>>
                     THEN controlRef
                     ELSE [controlRef EXCEPT !.zoomSpeed = 0]
    /\ UNCHANGED <<producerVars, stamp, writes, resets, messages, timers, lifecycleVars,
                   contentVars>>

\* Model's useFrame callback; App renders the viewer once modelUrl is set.
\* Reading rotationVelocity.x of a record without rotationVelocity throws
\* before anything is assigned.
useFrame(idle) ==
    /\ modelUrl # ""
    /\ frames < MaxFrames
    /\ frames' = frames + 1
    /\ snapshot' = <<stamp>>
    /\ viewer' = IF controlRef.rotationVelocity = <<>>
                 THEN [viewer EXCEPT !.threw = TRUE]
                 ELSE NextViewer(viewer, controlRef, idle)
    /\ UNCHANGED <<producerVars, controlRef, stamp, writes, resets, messages, timers, lifecycleVars,
                   contentVars>>

NextSession ==
    \/ \E res \in SessionResults : produce(res)
    \/ \E url \in DemoModels : loadDemoModel(url)
    \/ \E idle \in IdleSteps : useFrame(idle)

SpecSession == Init /\ [][NextSession]_vars

\* ------------------------------------------------------------ content
\* The producer and the three handlers of App that change the viewed model.
NextContent ==
    \/ \E res \in SessionResults : produce(res)
    \/ \E url \in LocalFiles : handleFileUpload(url)
    \/ \E url \in DemoModels : loadDemoModel(url)
    \/ handleImageTo3D
    \/ fileLoaded
    \/ fileReadFailed
    \/ analysisDone
    \/ \E url \in ReconstructedModels : reconstructionDone(url)
    \/ reconstructionFailed
    \/ processingTimeout

SpecContent == Init /\ [][NextContent]_vars

\* ------------------------------------------------------------ image-to-3D runs
\* The runs of handleImageTo3D beside the producer.  A run is started while
\* a reset is left for its model assignment; every await of a run is settled
\* one way or the other, and the timeout of the finally block runs.
imageChosen == resets < MaxResets /\ handleImageTo3D

NextRuns ==
    \/ \E res \in SessionResults : produce(res)
    \/ imageChosen
    \/ fileLoaded
    \/ fileReadFailed
    \/ analysisDone
    \/ \E url \in ReconstructedModels : reconstructionDone(url)
    \/ reconstructionFailed
    \/ processingTimeout

SpecRuns ==
    /\ Init /\ [][NextRuns]_vars
    /\ WF_vars(fileLoaded \/ fileReadFailed)
    /\ WF_vars(analysisDone \/ reconstructionFailed)
    /\ WF_vars(\E url \in ReconstructedModels : reconstructionDone(url))
    /\ WF_vars(processingTimeout)

\* ------------------------------------------------------------ voice
\* The writers of controlRef with the VoiceController mounted on it.
FunctionNames == {"zoom_in", "zoom_out", "rotate", "stop"}

\* message.toolCall.functionCalls: one call, or a zoom and a stop
FunctionCalls == {<<a>> : a \in FunctionNames} \cup {<<"zoom_in", "stop">>}

\* the fields one function call assigns
CallWrites(name) ==
    IF name = "rotate" THEN {"rotationSpeed"}
    ELSE IF name = "stop" THEN {"zoomSpeed", "rotationSpeed"}
    ELSE {"zoomSpeed"}

\* the record after one function call
CallRecord(ctl, name) ==
    IF name = "zoom_in" THEN [ctl EXCEPT !.zoomSpeed = VOICE_ZOOM]
    ELSE IF name = "zoom_out" THEN [ctl EXCEPT !.zoomSpeed = -VOICE_ZOOM]
    ELSE IF name = "rotate" THEN [ctl EXCEPT !.rotationSpeed = VOICE_ROTATE]
    ELSE [ctl EXCEPT !.zoomSpeed = 0, !.rotationSpeed = 0]

RECURSIVE CallsRecord(_, _)
CallsRecord(ctl, calls) ==
    IF calls = <<>> THEN ctl
    ELSE CallsRecord(CallRecord(ctl, Head(calls)), Tail(calls))

\* the fields the calls of one message assign
CallsWrites(calls) == UNION {CallWrites(calls[i]) : i \in 1..Len(calls)}

\* fc.name.startsWith('zoom'): the calls that start a timeout
ZoomCalls(calls) == Cardinality({i \in 1..Len(calls) : calls[i] \in {"zoom_in", "zoom_out"}})

\* the body of onmessage on a message with tool calls; the timeouts have
\* one delay, so they run in the order they were started
Message(calls) ==
    /\ messages' = messages + 1
    /\ controlRef' = CallsRecord(controlRef, calls)
    /\ stamp' = Stamped(stamp, CallsWrites(calls), "voice", writes + 1)
    /\ writes' = writes + 1
    /\ timers' = timers \o [k \in 1..ZoomCalls(calls) |-> writes + 1]
    /\ UNCHANGED <<producerVars, viewerVars, resets, contentVars, lifecycleVars>>

\* onmessage of the voice session on a message with tool calls
onmessage(calls) == messages < MaxMessages /\ Message(calls)

\* setTimeout(() => { controlRef.current.zoomSpeed = 0; }, 1500)
zoomTimeout ==
    /\ timers # <<>>
    /\ timers' = Tail(timers)
    /\ controlRef' = [controlRef EXCEPT !.zoomSpeed = 0]
    /\ stamp' = Stamped(stamp, {"zoomSpeed"}, "timer", writes + 1)
    /\ writes' = writes + 1
    /\ UNCHANGED <<producerVars, viewerVars, resets, messages, contentVars, lifecycleVars>>

NextVoice ==
    \/ \E res \in SessionResults : produce(res)
    \/ \E url \in DemoModels : loadDemoModel(url)
    \/ \E calls \in FunctionCalls : onmessage(calls)
    \/ zoomTimeout

SpecVoice == Init /\ [][NextVoice]_vars

\* ------------------------------------------------------------ voice commands
\* Voice commands in sequence and their timeouts.  A timeout that was
\* started runs after its delay, whatever else happens.
MaxCommands == 2

\* onmessage on one more message of the sequence
voiceCommand(calls) == messages < MaxCommands /\ Message(calls)

NextCommands ==
    \/ \E calls \in FunctionCalls : voiceCommand(calls)
    \/ zoomTimeout
    \/ \E url \in DemoModels : loadDemoModel(url)

SpecCommands == Init /\ [][NextCommands]_vars /\ WF_vars(zoomTimeout)

\* ------------------------------------------------------------ viewer
\* The frame callback as a function of the record it finds.  The record is
\* an input of the callback: any writer may have left any rates in it.
MaxRender == 3

\* zoomSpeed values: the producer's rate, a rate of a larger magnitude, zero
ZoomInputs == {-60000, -ZOOM_SENSITIVITY, 0, ZOOM_SENSITIVITY, 60000}

\* panPosition values, in ten-thousandths
PanInputs == {Pt(0, 0), Pt(20000, -10000)}

\* rotationVelocity values, in thousandths
RotationInputs == {Pt(0, 0), Pt(30, -20)}

ViewerRecords ==
    { [rotationSpeed |-> 0, rotationVelocity |-> <<rv>>, zoomSpeed |-> z,
       panPosition |-> p, isDragging |-> dr] :
         rv \in RotationInputs, z \in ZoomInputs, p \in PanInputs, dr \in BOOLEAN }

\* a frame callback that finds the record ctl in controlRef.current
renderFrame(ctl, idle) ==
    /\ frames < MaxRender
    /\ frames' = frames + 1
    /\ controlRef' = ctl
    /\ snapshot' = <<stamp>>
    /\ viewer' = NextViewer(viewer, ctl, idle)
    /\ UNCHANGED <<producerVars, stamp, writes, resets, messages, timers, lifecycleVars,
                   contentVars>>

NextRender == \E ctl \in ViewerRecords, idle \in IdleSteps : renderFrame(ctl, idle)

SpecViewer == Init /\ [][NextRender]_vars

\* ------------------------------------------------------------ lifecycle
\* The start and the teardown of HandController.  App renders it while
\* cameraActive (App.tsx 290-298); the button of line 210 toggles it.  The
\* specifications above take the loop as started; here every cycle is a
\* callback of the instance that requested it.
MaxMounts == 2
MaxLoop == 2

appVars == <<controlRef, stamp, writes, viewerVars, resets, messages, timers, contentVars>>

Instances == 1..Len(instances)

\* variant: the cleanup leaves the requested animation frame in place
Cleanup_NoCancel(h) ==
    [h EXCEPT !.mounted = FALSE, !.videoRef = FALSE, !.tornAt = h.phase,
              !.handLandmarkerRef = IF h.handLandmarkerRef = "open" THEN "closed"
                                    ELSE h.handLandmarkerRef]

\* the effect's cleanup on unmount: mounted = false, close() on a landmarker
\* that is set, cancelAnimationFrame(requestRef.current); React has detached
\* videoRef and canvasRef with the elements
Cleanup(h) ==
    [h EXCEPT !.mounted = FALSE, !.videoRef = FALSE, !.tornAt = h.phase,
              !.handLandmarkerRef = IF h.handLandmarkerRef = "open" THEN "closed"
                                    ELSE h.handLandmarkerRef,
              !.pending = h.pending \ {h.requestRef}]

\* variant: the teardown puts the rates of the record to rest
stopCamera_Rests ==
    /\ cameraActive
    /\ cameraActive' = FALSE
    /\ instances' = [instances EXCEPT ![Len(instances)] = Cleanup(@)]
    /\ controlRef' = [controlRef EXCEPT !.rotationVelocity = <<Pt(0, 0)>>,
                                        !.zoomSpeed = 0, !.isDragging = FALSE]
    /\ UNCHANGED <<producerVars, stamp, writes, viewerVars, resets, messages, timers,
                   contentVars>>

\* setCameraActive(false): the mounted instance is unmounted
stopCamera ==
    /\ cameraActive
    /\ cameraActive' = FALSE
    /\ instances' = [instances EXCEPT ![Len(instances)] = Cleanup(@)]
    /\ UNCHANGED <<producerVars, appVars>>

\* setCameraActive(true): a new instance is mounted with fresh refs and its
\* effect starts setupMediaPipe
startCamera ==
    /\ ~cameraActive
    /\ Len(instances) < MaxMounts
    /\ cameraActive' = TRUE
    /\ instances' = Append(instances, NewInstance)
    /\ smoothRightPinchRef' = Pt(500, 500)
    /\ smoothLeftFingerCenterRef' = Pt(500, 500)
    /\ wasContactingRef' = FALSE
    /\ prevLeftPosRef' = <<>>
    /\ UNCHANGED <<observer, result, cycles, contactBefore, hasDragged, notified, appVars>>

\* FilesetResolver.forVisionTasks resolves; if (!mounted) return
filesetResolved(i) ==
    /\ instances[i].phase = "resolving"
    /\ instances' = [instances EXCEPT ![i].phase = IF instances[i].mounted THEN "creating"
                                                   ELSE "returned"]
    /\ UNCHANGED <<producerVars, appVars, cameraActive>>

\* HandLandmarker.createFromOptions resolves: the ref is assigned and
\* startWebcam() is called
landmarkerCreated(i) ==
    /\ instances[i].phase = "creating"
    /\ instances' = [instances EXCEPT ![i].phase = "acquiring",
                                      ![i].handLandmarkerRef = "open"]
    /\ UNCHANGED <<producerVars, appVars, cameraActive>>

\* either await of setupMediaPipe rejects: the catch sets the error, and
\* the component renders the error panel in place of the video
setupFailed(i) ==
    /\ instances[i].phase \in {"resolving", "creating"}
    /\ instances' = [instances EXCEPT ![i].phase = "failed", ![i].videoRef = FALSE]
    /\ UNCHANGED <<producerVars, appVars, cameraActive>>

\* getUserMedia resolves: the stream is attached and the loadeddata
\* listener added if videoRef.current is set
streamAcquired(i) ==
    /\ instances[i].phase = "acquiring"
    /\ instances' = [instances EXCEPT ![i].stream = TRUE,
                                      ![i].listening = instances[i].videoRef,
                                      ![i].phase = IF instances[i].videoRef THEN "waiting"
                                                   ELSE "detached"]
    /\ UNCHANGED <<producerVars, appVars, cameraActive>>

\* getUserMedia rejects
webcamFailed(i) ==
    /\ instances[i].phase = "acquiring"
    /\ instances' = [instances EXCEPT ![i].phase = "failed", ![i].videoRef = FALSE]
    /\ UNCHANGED <<producerVars, appVars, cameraActive>>

\* the instance after requestAnimationFrame(predictWebcam) of line 296
Requested(h) ==
    [h EXCEPT !.requestRef = h.requestRef + 1, !.pending = h.pending \cup {h.requestRef + 1},
              !.ran = h.ran + 1, !.phase = "looping"]

\* predictWebcam as a callback of instance i, h being the instance as the
\* callback finds it: the guard of line 126 returns without a cycle and
\* without a request
Callback(i, h, res) ==
    IF ~h.videoRef \/ h.handLandmarkerRef = "null"
    THEN /\ instances' = [instances EXCEPT ![i] = h]
         /\ UNCHANGED <<producerVars, appVars, cameraActive>>
    ELSE /\ cycles < MaxLoop
         /\ Cycle(res)
         /\ instances' = [instances EXCEPT ![i] = Requested(h)]
         /\ UNCHANGED cameraActive

\* the video's loadeddata event
loadeddata(i, res) ==
    /\ instances[i].listening
    /\ Callback(i, [instances[i] EXCEPT !.listening = FALSE], res)

\* a requested animation frame runs
animationFrame(i, id, res) ==
    /\ id \in instances[i].pending
    /\ Callback(i, [instances[i] EXCEPT !.pending = instances[i].pending \ {id}], res)

NextLifecycle ==
    \/ stopCamera
    \/ startCamera
    \/ \E i \in Instances : filesetResolved(i)
    \/ \E i \in Instances : landmarkerCreated(i)
    \/ \E i \in Instances : setupFailed(i)
    \/ \E i \in Instances : streamAcquired(i)
    \/ \E i \in Instances : webcamFailed(i)
    \/ \E i \in Instances, res \in SessionResults : loadeddata(i, res)
    \/ \E i \in Instances, res \in SessionResults :
          \E id \in instances[i].pending : animationFrame(i, id, res)
    \/ \E url \in DemoModels : loadDemoModel(url)

SpecLifecycle == Init /\ [][NextLifecycle]_vars

\* ------------------------------------------------------------ properties
\* the last cycle's frame and what it published
AfterCycle == cycles > 0
Label == observer.gesture
HasLeft == leftHandLandmarks(result) # <<>>
HasRight == rightHandLandmarks(result) # <<>>
BothHands == HasLeft /\ HasRight
LeftLm == leftHandLandmarks(result)[1]
RightLm == rightHandLandmarks(result)[1]
NoRotation == <<Pt(0, 0)>>

\* 100 x the squared wrist distance of a both-hands frame, and the squares
\* of 10 x T_enter and 10 x T_enter x 1.3
WristDistSq100 == ENTER_FACTOR * ENTER_FACTOR * getDistanceSq(LeftLm[0], RightLm[0])
EnterSq100 == (CONTACT_THRESHOLD * ENTER_FACTOR) * (CONTACT_THRESHOLD * ENTER_FACTOR)
ExitSq100 == (CONTACT_THRESHOLD * EXIT_FACTOR) * (CONTACT_THRESHOLD * EXIT_FACTOR)

\* the last frame was determined to be in dual-hand contact
ContactFrame == isContacting(result, contactBefore)

RightPinchGeometry == HasRight /\ getPinchDistanceLess(RightLm, PINCH_THRESHOLD)

AllFourExtended(lm) ==
    /\ isFingerExtended(lm, 8, 6) /\ isFingerExtended(lm, 12, 10)
    /\ isFingerExtended(lm, 16, 14) /\ isFingerExtended(lm, 20, 18)
AllFourFolded(lm) ==
    /\ ~isFingerExtended(lm, 8, 6) /\ ~isFingerExtended(lm, 12, 10)
    /\ ~isFingerExtended(lm, 16, 14) /\ ~isFingerExtended(lm, 20, 18)

\* C1: after every cycle whose detection result has no hands, whatever came
\* before, the observer got NONE and the control record has a zero rotation
\* velocity, a zero zoom speed and isDragging false.
C1_NoHands ==
    (AfterCycle /\ Len(result.landmarks) = 0) =>
        /\ Label = NONE
        /\ observer.isDragging = FALSE
        /\ controlRef.rotationVelocity = NoRotation
        /\ controlRef.zoomSpeed = 0
        /\ controlRef.isDragging = FALSE

\* an empty frame after a drag and a rotation
C1_Witness ==
    /\ AfterCycle /\ Len(result.landmarks) = 0
    /\ hasDragged /\ prevLeftPosRef # <<>>
    /\ controlRef.panPosition # Pt(0, 0)

\* C2: a cycle whose frame is in dual-hand contact reports DUAL_HAND_CONTACT
\* whatever the fingers of either hand do, publishes zero rates and no drag,
\* and leaves panPosition, both smoothing anchors and the rotation history as
\* they were: no per-hand gesture is evaluated.
C2_ContactSupersedes ==
    [][isContacting(result', wasContactingRef) =>
          /\ observer'.gesture = DUAL_HAND_CONTACT
          /\ controlRef'.rotationVelocity = NoRotation
          /\ controlRef'.zoomSpeed = 0
          /\ controlRef'.isDragging = FALSE
          /\ controlRef'.panPosition = controlRef.panPosition
          /\ smoothRightPinchRef' = smoothRightPinchRef
          /\ smoothLeftFingerCenterRef' = smoothLeftFingerCenterRef
          /\ prevLeftPosRef' = prevLeftPosRef]_vars

\* a contact frame with a pinching right hand and an open left palm, after a drag
C2_Witness ==
    /\ AfterCycle /\ BothHands /\ ContactFrame
    /\ RightPinchGeometry
    /\ AllFourExtended(LeftLm)
    /\ hasDragged /\ controlRef.panPosition # Pt(0, 0)
    /\ Label = DUAL_HAND_CONTACT

\* C3 as stated: on a both-hands frame read while in contact, the contact
\* state stays true when the wrist distance is between T_enter and
\* T_enter x 1.3, and it becomes false only when the distance exceeds
\* T_enter x 1.3.
C3_Original ==
    (AfterCycle /\ contactBefore /\ BothHands) =>
        /\ (EnterSq100 <= WristDistSq100 /\ WristDistSq100 < ExitSq100)
               => wasContactingRef
        /\ ~wasContactingRef => WristDistSq100 > ExitSq100

\* C3 amended: hysteresis non-chatter.  On a both-hands frame read while not
\* in contact, contact is entered iff the wrist distance is below T_enter; on
\* a both-hands frame read while in contact, the contact state stays true
\* iff the distance is below T_enter x 1.3, so it becomes false only at a
\* distance of at least T_enter x 1.3.
C3_Hysteresis ==
    (AfterCycle /\ BothHands) =>
        /\ contactBefore => (wasContactingRef <=> WristDistSq100 < ExitSq100)
        /\ ~contactBefore => (wasContactingRef <=> WristDistSq100 < EnterSq100)

\* contact held at a wrist distance of T_enter or more
C3_Witness ==
    /\ AfterCycle /\ BothHands /\ contactBefore /\ wasContactingRef
    /\ WristDistSq100 >= EnterSq100
    /\ Label = DUAL_HAND_CONTACT

\* C4 as stated: a both-hands frame read while in contact whose wrist
\* distance is exactly T_enter x 1.3 keeps the contact state and is
\* labelled DUAL_HAND_CONTACT.
C4_Original ==
    (AfterCycle /\ contactBefore /\ BothHands /\ WristDistSq100 = ExitSq100) =>
        wasContactingRef /\ Label = DUAL_HAND_CONTACT

\* C4 amended: while in contact, contact is exited exactly when the wrist
\* distance is at least T_enter x 1.3; a both-hands frame at exactly
\* T_enter x 1.3 clears the contact state and is not labelled
\* DUAL_HAND_CONTACT.
C4_ExitAtBoundary ==
    (AfterCycle /\ contactBefore /\ BothHands) =>
        /\ ~wasContactingRef => WristDistSq100 >= ExitSq100
        /\ WristDistSq100 = ExitSq100 =>
               ~wasContactingRef /\ Label # DUAL_HAND_CONTACT

\* a frame at exactly T_enter x 1.3 read while in contact
C4_Witness ==
    /\ AfterCycle /\ contactBefore /\ BothHands
    /\ WristDistSq100 = ExitSq100
    /\ ~wasContactingRef

\* C5 as stated: after every cycle whose label is not LEFT_TWO_FINGER_ROTATE
\* the rotation history is empty, and the first rotate frame after a cycle
\* with another label publishes a zero rotation velocity.
C5_HistoryCleared ==
    [][/\ observer'.gesture # LEFT_TWO_FINGER_ROTATE => prevLeftPosRef' = <<>>
       /\ (observer.gesture # LEFT_TWO_FINGER_ROTATE
           /\ observer'.gesture = LEFT_TWO_FINGER_ROTATE)
              => controlRef'.rotationVelocity = NoRotation]_vars

\* C6 as stated: when a pinch frame follows a gap of one or more frames
\* without a qualifying pinch, the pinch anchor at the start of that frame
\* is not the value the last pinch frame left (which panPosition maps).
C6_AnchorResetInGap ==
    [][(hasDragged /\ ~controlRef.isDragging /\ controlRef'.isDragging)
          => PanTarget(smoothRightPinchRef) # controlRef.panPosition]_vars

\* C7 as stated: isDragging is true iff the label is RIGHT_PINCH_DRAG, and a
\* non-contact both-hands frame whose right hand pinches is labelled
\* RIGHT_PINCH_DRAG.
C7_Original ==
    AfterCycle =>
        /\ controlRef.isDragging <=> Label = RIGHT_PINCH_DRAG
        /\ (BothHands /\ ~ContactFrame /\ RightPinchGeometry)
               => Label = RIGHT_PINCH_DRAG

\* C7 amended: isDragging is true iff the frame is a non-contact frame whose
\* right hand pinches; RIGHT_PINCH_DRAG implies isDragging; while dragging
\* the label is the left hand's gesture when the left hand shows one, and
\* RIGHT_PINCH_DRAG otherwise.
C7_DragAndLabel ==
    AfterCycle =>
        /\ controlRef.isDragging <=> (~ContactFrame /\ RightPinchGeometry)
        /\ observer.isDragging = controlRef.isDragging
        /\ Label = RIGHT_PINCH_DRAG => controlRef.isDragging
        /\ controlRef.isDragging =>
               Label = IF HasLeft /\ LeftGesture(LeftLm) # NONE
                       THEN LeftGesture(LeftLm) ELSE RIGHT_PINCH_DRAG

\* dragging while the left hand's gesture is the label
C7_Witness ==
    /\ AfterCycle /\ controlRef.isDragging /\ BothHands
    /\ Label \in {LEFT_TWO_FINGER_ROTATE, ZOOM_IN_PALM, ZOOM_OUT_FIST}

\* C8: a cycle that ends with isDragging false leaves panPosition as it was.
C8_PanOnlyWhileDragging ==
    [][controlRef'.isDragging = FALSE
          => controlRef'.panPosition = controlRef.panPosition]_vars

\* a released drag whose target is still published, the right hand open
C8_Witness ==
    /\ AfterCycle /\ hasDragged /\ ~controlRef.isDragging
    /\ controlRef.panPosition # Pt(0, 0)
    /\ HasRight /\ ~RightPinchGeometry /\ ~ContactFrame

\* C9: after every cycle the rates are defined, the rotation velocity is
\* non-zero only under the label LEFT_TWO_FINGER_ROTATE and the zoom speed
\* is non-zero only under ZOOM_IN_PALM or ZOOM_OUT_FIST.
C9_NoResidualMotion ==
    AfterCycle =>
        /\ Len(controlRef.rotationVelocity) = 1
        /\ controlRef.rotationVelocity # NoRotation
               => Label = LEFT_TWO_FINGER_ROTATE
        /\ controlRef.zoomSpeed # 0 => Label \in {ZOOM_IN_PALM, ZOOM_OUT_FIST}

\* a rotation being published during a drag
C9_Witness ==
    /\ AfterCycle /\ Len(controlRef.rotationVelocity) = 1
    /\ controlRef.rotationVelocity # NoRotation
    /\ controlRef.isDragging

LeftTable(lm) ==
    LET eIndex == lm[8].y < lm[6].y
        eMiddle == lm[12].y < lm[10].y
        eRing == lm[16].y < lm[14].y
        ePinky == lm[20].y < lm[18].y
        near == getDistanceSq(lm[8], lm[12])
                    < FINGER_CONTACT_THRESHOLD * FINGER_CONTACT_THRESHOLD
    IN  IF eIndex /\ eMiddle /\ near THEN LEFT_TWO_FINGER_ROTATE
        ELSE IF eIndex /\ eMiddle /\ eRing /\ ePinky /\ ~near THEN ZOOM_IN_PALM
        ELSE IF ~eIndex /\ ~eMiddle /\ ~eRing /\ ~ePinky THEN ZOOM_OUT_FIST
        ELSE NONE

C11_LeftDecisionTable ==
    (AfterCycle /\ HasLeft /\ ~ContactFrame) =>
        /\ Label = IF LeftTable(LeftLm) # NONE THEN LeftTable(LeftLm)
                   ELSE IF controlRef.isDragging THEN RIGHT_PINCH_DRAG ELSE NONE
        /\ (prevLeftPosRef # <<>>) <=> (LeftTable(LeftLm) = LEFT_TWO_FINGER_ROTATE)
        /\ controlRef.zoomSpeed =
               IF LeftTable(LeftLm) = ZOOM_IN_PALM THEN ZOOM_SENSITIVITY
               ELSE IF LeftTable(LeftLm) = ZOOM_OUT_FIST THEN -ZOOM_SENSITIVITY
               ELSE 0

\* all four fingers extended with index and middle touching: rotate wins
C11_Witness ==
    /\ AfterCycle /\ HasLeft /\ ~ContactFrame
    /\ AllFourExtended(LeftLm)
    /\ getDistanceLess(LeftLm[8], LeftLm[12], FINGER_CONTACT_THRESHOLD)
    /\ Label = LEFT_TWO_FINGER_ROTATE

\* C12: rotation rate.  On a cycle labelled LEFT_TWO_FINGER_ROTATE with a
\* rotation history, delta = the two-finger anchor after the cycle's
\* smoothing step minus the history; the velocity is zero when both
\* |delta.x| and |delta.y| are within the deadzone and otherwise
\* pitch = delta.y x S and yaw = -delta.x x S, both components set.  With an
\* empty history the velocity is zero.
C12_RotationRate ==
    [][observer'.gesture = LEFT_TWO_FINGER_ROTATE =>
          IF prevLeftPosRef = <<>>
          THEN controlRef'.rotationVelocity = NoRotation
          ELSE LET dx == smoothLeftFingerCenterRef'.x - prevLeftPosRef[1].x
                   dy == smoothLeftFingerCenterRef'.y - prevLeftPosRef[1].y
               IN  controlRef'.rotationVelocity =
                       IF Abs(dx) <= ROTATION_DEADZONE /\ Abs(dy) <= ROTATION_DEADZONE
                       THEN NoRotation
                       ELSE <<Pt(dy * ROTATION_SENSITIVITY,
                                 -dx * ROTATION_SENSITIVITY)>>]_vars

\* a rotation whose vertical delta is inside the deadzone and not zero
\* while the horizontal delta is outside it
C12_Witness ==
    /\ AfterCycle /\ Label = LEFT_TWO_FINGER_ROTATE
    /\ Len(controlRef.rotationVelocity) = 1
    /\ controlRef.rotationVelocity[1].x # 0
    /\ Abs(controlRef.rotationVelocity[1].x) <= ROTATION_DEADZONE * ROTATION_SENSITIVITY
    /\ Abs(controlRef.rotationVelocity[1].y) > ROTATION_DEADZONE * ROTATION_SENSITIVITY

\* C13: pinch release re-anchoring.  A cycle on a non-contact frame whose
\* right hand has a thumb-tip/index-tip distance of at least T_pinch
\* publishes isDragging false, sets the pinch anchor to the right wrist's
\* (x, y) and leaves panPosition as it was.
C13_ReleaseReanchors ==
    [][(/\ rightHandLandmarks(result') # <<>>
        /\ ~isContacting(result', wasContactingRef)
        /\ getDistanceSq(rightHandLandmarks(result')[1][4],
                         rightHandLandmarks(result')[1][8])
               >= PINCH_THRESHOLD * PINCH_THRESHOLD)
          => /\ controlRef'.isDragging = FALSE
             /\ observer'.isDragging = FALSE
             /\ smoothRightPinchRef' = Pt(rightHandLandmarks(result')[1][0].x,
                                          rightHandLandmarks(result')[1][0].y)
             /\ controlRef'.panPosition = controlRef.panPosition]_vars

\* a release at exactly T_pinch after a drag: anchor on the wrist, not on
\* the midpoint, the drag target still published
C13_Witness ==
    /\ AfterCycle /\ HasRight /\ ~ContactFrame
    /\ getDistanceSq(RightLm[4], RightLm[8]) = PINCH_THRESHOLD * PINCH_THRESHOLD
    /\ smoothRightPinchRef = RightLm[0]
    /\ smoothRightPinchRef # RawPinch(RightLm)
    /\ hasDragged /\ controlRef.panPosition # Pt(0, 0)
    /\ ~controlRef.isDragging

\* the frame of the step being taken is a right-hand pinch that is evaluated
PinchStep ==
    /\ rightHandLandmarks(result') # <<>>
    /\ ~isContacting(result', wasContactingRef)
    /\ getDistanceSq(rightHandLandmarks(result')[1][4], rightHandLandmarks(result')[1][8])
           < PINCH_THRESHOLD * PINCH_THRESHOLD
\* its raw thumb/index midpoint
StepRaw ==
    Pt(RoundDiv(rightHandLandmarks(result')[1][4].x + rightHandLandmarks(result')[1][8].x, 2),
       RoundDiv(rightHandLandmarks(result')[1][4].y + rightHandLandmarks(result')[1][8].y, 2))

C15_Original ==
    /\ controlRef.isDragging =>
           controlRef.panPosition = Pt((500 - smoothRightPinchRef.x) * DRAG_SCALE_X,
                                       (500 - smoothRightPinchRef.y) * DRAG_SCALE_Y)
    /\ (cycles >= 11 /\ RawPinch(RightLm) = Pt(500, 500))
           => controlRef.panPosition = Pt(0, 0)

\* C15 amended: every cycle that publishes a drag publishes
\* ((0.5 - anchor.x) x scaleX, (0.5 - anchor.y) x scaleY) of the anchor after
\* its smoothing step, so a rightward anchor move lowers panPosition.x and
\* an anchor at (0.5, 0.5) gives (0, 0).  A pinch held at (0.5, 0.5) keeps an
\* anchor that is at (0.5, 0.5), the session's initial anchor, there and
\* publishes (0, 0); from another anchor 10 consecutive frames bring
\* panPosition within 0.01 x scale of (0, 0) on each axis.
C15_PanMapping ==
    [][PinchStep =>
          LET a == smoothRightPinchRef
              b == smoothRightPinchRef'
              pan == controlRef'.panPosition
          IN  /\ controlRef'.isDragging
              /\ pan = Pt((500 - b.x) * DRAG_SCALE_X, (500 - b.y) * DRAG_SCALE_Y)
              /\ (controlRef.isDragging /\ b.x > a.x) => pan.x < controlRef.panPosition.x
              /\ b = Pt(500, 500) => pan = Pt(0, 0)
              /\ (StepRaw = Pt(500, 500) /\ a = Pt(500, 500)) => pan = Pt(0, 0)
              /\ (StepRaw = Pt(500, 500) /\ cycles' >= 11)
                     => /\ Abs(pan.x) <= 10 * DRAG_SCALE_X
                        /\ Abs(pan.y) <= 10 * DRAG_SCALE_Y]_vars

\* 10 frames of a pinch held at (0.5, 0.5) from a re-anchored position:
\* near the centre, not on it
C15_Witness ==
    /\ cycles >= 11 /\ controlRef.isDragging
    /\ RawPinch(RightLm) = Pt(500, 500)
    /\ controlRef.panPosition # Pt(0, 0)
    /\ Abs(controlRef.panPosition.y) <= 10 * DRAG_SCALE_Y

\* C16: adaptive smoothing step.  On every pinch frame the factor is
\* 15 x |raw - anchor| (rounded down to thousandths) clamped to
\* [Fmin, Fmax], the new anchor is anchor + (raw - anchor) x factor on each
\* axis, and the new anchor lies between the old anchor and the raw
\* midpoint on each axis: it moves toward the midpoint without overshoot.
Between(lo, v, hi) == (lo <= v /\ v <= hi) \/ (hi <= v /\ v <= lo)

C16_AdaptiveStep ==
    [][PinchStep =>
          LET p == StepRaw
              a == smoothRightPinchRef
              b == smoothRightPinchRef'
              g == ADAPTIVE_GAIN * ADAPTIVE_GAIN * getDistanceSq(a, p)
          IN  /\ ADAPTIVE_MIN <= ADAPTIVE_MAX /\ ADAPTIVE_MAX < 1000
              /\ \E f \in ADAPTIVE_MIN..ADAPTIVE_MAX :
                    /\ \/ f * f <= g /\ g < (f + 1) * (f + 1)
                       \/ f = ADAPTIVE_MIN /\ g < f * f
                       \/ f = ADAPTIVE_MAX /\ g >= f * f
                    /\ b.x = a.x + RoundDiv((p.x - a.x) * f, 1000)
                    /\ b.y = a.y + RoundDiv((p.y - a.y) * f, 1000)
              /\ Between(a.x, b.x, p.x) /\ Between(a.y, b.y, p.y)
              /\ (a # p /\ getDistanceSq(a, p) >= 10 * 10) => b # a]_vars

\* a pinch step taken with a factor strictly between floor and ceiling
C16_Witness ==
    /\ cycles >= 2 /\ controlRef.isDragging
    /\ smoothRightPinchRef # RawPinch(RightLm)
    /\ getDistanceSq(smoothRightPinchRef, RawPinch(RightLm)) > 10 * 10
    /\ getDistanceSq(smoothRightPinchRef, RawPinch(RightLm)) < 20 * 20

\* C20: every producer cycle calls the observer exactly once, after the
\* cycle's rotationVelocity, zoomSpeed and isDragging are in the control
\* record, with the cycle's label and the isDragging value written to the
\* record; the call is made also when label and isDragging are those of
\* the cycle before.
C20_NotifiedEveryCycle ==
    [][cycles' = cycles + 1 =>
          /\ notified'.count = notified.count + 1
          /\ notified'.count = cycles'
          /\ notified'.control = <<controlRef'>>
          /\ observer'.gesture = newGesture(result', wasContactingRef)
          /\ observer'.isDragging = controlRef'.isDragging
          /\ notified'.control[1].isDragging = observer'.isDragging
          /\ notified'.control[1].zoomSpeed = newZoomSpeed(result', wasContactingRef)
          /\ notified'.control[1].rotationVelocity # <<>>]_vars

\* two consecutive cycles in dual-hand contact: the second call repeats
\* the arguments of the first
C20_Witness ==
    /\ cycles = 2 /\ contactBefore /\ wasContactingRef
    /\ Label = DUAL_HAND_CONTACT /\ ~observer.isDragging
    /\ notified.count = cycles
    /\ notified.control = <<controlRef>>

\* C17: torn-record freedom.  Whenever producer cycles, content-change
\* resets and viewer frames interleave, the record - and so every
\* snapshot a viewer frame reads - has rotationVelocity, zoomSpeed and
\* isDragging written by one and the same producer cycle or reset, and a
\* panPosition written by that handler or an earlier one.
Untorn(st) ==
    /\ st.rotationVelocity = st.zoomSpeed
    /\ st.zoomSpeed = st.isDragging
    /\ st.isDragging.by \in {"producer", "reset"}
    /\ st.panPosition.at <= st.isDragging.at
    /\ st.isDragging.by = "reset" => st.panPosition = st.isDragging

C17_NoTornRecord ==
    /\ Untorn(stamp)
    /\ snapshot # <<>> => Untorn(snapshot[1])

\* a frame that read the record of a producer cycle run after a reset,
\* with the panPosition the reset left
C17_Witness ==
    /\ snapshot # <<>>
    /\ snapshot[1].isDragging.by = "producer"
    /\ snapshot[1].isDragging.at >= 2
    /\ snapshot[1].panPosition.by = "reset"
    /\ snapshot[1].panPosition.at >= 1
    /\ snapshot[1].panPosition.at < snapshot[1].isDragging.at

\* C18: single producer.  Every field of the control record was last
\* written by the gesture producer cycle or by the session-start /
\* content-change reset, never by the voice handler or its timer.
C18_SingleProducer ==
    \A f \in Fields : stamp[f].by \in {"producer", "reset"}

\* C19: rest configuration.  At session start and right after every
\* content-change reset the record is rotationVelocity = {0, 0},
\* zoomSpeed = 0, panPosition = {0, 0}, isDragging = false, and no viewer
\* frame fails on reading rotationVelocity.
AtRest == \A f \in Fields : stamp[f] = [by |-> "reset", at |-> writes]

C19_RestConfiguration ==
    /\ AtRest => /\ controlRef.rotationVelocity = <<Pt(0, 0)>>
                 /\ controlRef.zoomSpeed = 0
                 /\ controlRef.panPosition = Pt(0, 0)
                 /\ ~controlRef.isDragging
    /\ ~viewer.threw

\* the frame holds exactly one hand
SingleHand(res) == Len(res.landmarks) > 0 /\ (leftHandLandmarks(res) = <<>> \/ rightHandLandmarks(res) = <<>>)

\* C21: a missing hand is not an error.  A cycle on a frame with only a
\* right hand publishes NONE or RIGHT_PINCH_DRAG with a zero
\* rotationVelocity and zoomSpeed; a cycle on a frame with only a left hand
\* publishes the left-hand result with isDragging false; neither publishes
\* DUAL_HAND_CONTACT; and the frame after a single-hand frame is
\* classified as a frame met out of contact is.
C21_MissingHand ==
    [][cycles' = cycles + 1 =>
          /\ (rightHandLandmarks(result') # <<>> /\ leftHandLandmarks(result') = <<>>)
                 => /\ observer'.gesture \in {NONE, RIGHT_PINCH_DRAG}
                    /\ observer'.gesture = RIGHT_PINCH_DRAG <=> controlRef'.isDragging
                    /\ controlRef'.rotationVelocity = NoRotation
                    /\ controlRef'.zoomSpeed = 0
          /\ (leftHandLandmarks(result') # <<>> /\ rightHandLandmarks(result') = <<>>)
                 => /\ observer'.gesture = LeftTable(leftHandLandmarks(result')[1])
                    /\ ~controlRef'.isDragging
          /\ SingleHand(result') => ~wasContactingRef'
          /\ SingleHand(result) =>
                 /\ observer'.gesture = newGesture(result', FALSE)
                 /\ wasContactingRef' = isContacting(result', FALSE)]_vars

\* a pinching right hand alone on the frame after a dual-hand contact
C21_Witness ==
    /\ AfterCycle /\ HasRight /\ ~HasLeft
    /\ contactBefore /\ ~wasContactingRef
    /\ Label = RIGHT_PINCH_DRAG /\ controlRef.isDragging
    /\ controlRef.rotationVelocity = NoRotation /\ controlRef.zoomSpeed = 0

\* the label and the contact flag as functions of the frame's geometry and
\* the cached contact flag alone
ContactTable(res, was) ==
    /\ leftHandLandmarks(res) # <<>> /\ rightHandLandmarks(res) # <<>>
    /\ ENTER_FACTOR * ENTER_FACTOR
           * getDistanceSq(leftHandLandmarks(res)[1][0], rightHandLandmarks(res)[1][0])
         < IF was THEN (CONTACT_THRESHOLD * EXIT_FACTOR) * (CONTACT_THRESHOLD * EXIT_FACTOR)
                  ELSE (CONTACT_THRESHOLD * ENTER_FACTOR) * (CONTACT_THRESHOLD * ENTER_FACTOR)
LabelTable(res, was) ==
    IF ContactTable(res, was) THEN DUAL_HAND_CONTACT
    ELSE IF leftHandLandmarks(res) # <<>> /\ LeftTable(leftHandLandmarks(res)[1]) # NONE
    THEN LeftTable(leftHandLandmarks(res)[1])
    ELSE IF rightHandLandmarks(res) # <<>>
            /\ getDistanceSq(rightHandLandmarks(res)[1][4], rightHandLandmarks(res)[1][8])
                   < PINCH_THRESHOLD * PINCH_THRESHOLD
    THEN RIGHT_PINCH_DRAG
    ELSE NONE
FlagTable(res, was) == IF Len(res.landmarks) > 0 THEN ContactTable(res, was) ELSE was

\* C22: classification determinism.  In every cycle, from every reachable
\* state, the published label and the next cached contact flag are the
\* values of two functions of the frame and the cached contact flag alone,
\* so equal frame sequences from the initial state give equal label
\* sequences, and for every frame the label is the same whatever the
\* smoothing anchors, the rotation history and the control record hold.
C22_LabelDeterminism ==
    /\ [](\A res \in Results :
              newGesture(res, wasContactingRef) = LabelTable(res, wasContactingRef))
    /\ [][cycles' = cycles + 1 =>
             /\ observer'.gesture = LabelTable(result', wasContactingRef)
             /\ wasContactingRef' = FlagTable(result', wasContactingRef)]_vars

\* a rotate label published from an empty rotation history while the
\* anchors and the control record hold what an earlier drag left
C22_Witness ==
    /\ cycles >= 2 /\ Label = LEFT_TWO_FINGER_ROTATE
    /\ hasDragged /\ controlRef.panPosition # Pt(0, 0)
    /\ smoothRightPinchRef # Pt(500, 500) /\ smoothLeftFingerCenterRef # Pt(500, 500)
    /\ controlRef.rotationVelocity = NoRotation

\* C23: every change of the viewed content resets the control record in
\* the handler that sets the model URL: while a model is shown, zoomSpeed,
\* panPosition and isDragging were each written by that handler's reset or
\* later, and hold the rest values until a producer cycle writes them.
ResetFields == {"zoomSpeed", "panPosition", "isDragging"}

C23_ContentChangeResets ==
    modelUrl # "" =>
        \A f \in ResetFields :
            /\ stamp[f].at > urlSetAfter
            /\ stamp[f].by = "reset" => controlRef[f] = RestRecord[f]

\* a model set after a drag episode, before the next producer cycle
C23_Witness ==
    /\ modelUrl # "" /\ hasDragged /\ cycles >= 1
    /\ urlSetAfter >= 1
    /\ \A f \in ResetFields : stamp[f] = [by |-> "reset", at |-> writes]
    /\ controlRef.panPosition = Pt(0, 0) /\ ~controlRef.isDragging

\* the left hand of the frame of the step being taken, and the midpoint of
\* its index and middle tips
StepLeft == leftHandLandmarks(result')[1]
StepFingerCenter ==
    Pt(RoundDiv(StepLeft[8].x + StepLeft[12].x, 2), RoundDiv(StepLeft[8].y + StepLeft[12].y, 2))

\* C24 as stated: the two-finger anchor is advanced only on frames
\* classified LEFT_TWO_FINGER_ROTATE; with a left hand present and another
\* left-hand result it is not advanced.
C24_Original ==
    [][(cycles' = cycles + 1 /\ leftHandLandmarks(result') # <<>>
           /\ LeftTable(StepLeft) # LEFT_TWO_FINGER_ROTATE)
          => smoothLeftFingerCenterRef' = smoothLeftFingerCenterRef]_vars

\* C24 amended: the two-finger anchor is advanced toward the raw
\* index/middle midpoint by the fixed smoothing factor on every frame whose
\* left hand is evaluated (a left hand is present and the frame is not in
\* dual-hand contact), whatever the left-hand result; it is left as it is
\* on frames without a left hand and on dual-hand-contact frames.
C24_AnchorEveryLeftFrame ==
    [][cycles' = cycles + 1 =>
          IF leftHandLandmarks(result') # <<>> /\ observer'.gesture # DUAL_HAND_CONTACT
          THEN /\ smoothLeftFingerCenterRef'.x
                      = smoothLeftFingerCenterRef.x
                          + RoundDiv((StepFingerCenter.x - smoothLeftFingerCenterRef.x)
                                         * SMOOTHING_FACTOR_ROTATION, 1000)
               /\ smoothLeftFingerCenterRef'.y
                      = smoothLeftFingerCenterRef.y
                          + RoundDiv((StepFingerCenter.y - smoothLeftFingerCenterRef.y)
                                         * SMOOTHING_FACTOR_ROTATION, 1000)
          ELSE smoothLeftFingerCenterRef' = smoothLeftFingerCenterRef]_vars

\* an open palm on the first frame has moved the anchor off its start
C24_Witness ==
    /\ cycles = 1 /\ HasLeft /\ Label = ZOOM_IN_PALM
    /\ smoothLeftFingerCenterRef # Pt(500, 500)
    /\ smoothLeftFingerCenterRef.x
           = 500 + RoundDiv((RoundDiv(LeftLm[8].x + LeftLm[12].x, 2) - 500)
                                * SMOOTHING_FACTOR_ROTATION, 1000)

\* C25: after every cycle labelled LEFT_TWO_FINGER_ROTATE the rotation
\* history is the two-finger anchor of that cycle, on the first rotate
\* frame and on frames whose delta is inside the deadzone too; a history
\* that is kept is the anchor still; so on the next rotate frame that
\* finds a history, the delta the velocity is computed from is that
\* frame's one smoothing step of the anchor.
C25_HistoryIsAnchor ==
    [][cycles' = cycles + 1 =>
          /\ observer'.gesture = LEFT_TWO_FINGER_ROTATE
                 => prevLeftPosRef' = <<smoothLeftFingerCenterRef'>>
          /\ prevLeftPosRef' # <<>> => prevLeftPosRef' = <<smoothLeftFingerCenterRef'>>
          /\ (prevLeftPosRef # <<>> /\ observer'.gesture = LEFT_TWO_FINGER_ROTATE)
                 => LET dx == smoothLeftFingerCenterRef'.x - smoothLeftFingerCenterRef.x
                        dy == smoothLeftFingerCenterRef'.y - smoothLeftFingerCenterRef.y
                    IN  controlRef'.rotationVelocity =
                            IF Abs(dx) > ROTATION_DEADZONE \/ Abs(dy) > ROTATION_DEADZONE
                            THEN <<Pt(dy * ROTATION_SENSITIVITY, -dx * ROTATION_SENSITIVITY)>>
                            ELSE NoRotation]_vars

\* a third rotate frame in a row, after a second one whose step was
\* inside the deadzone: the velocity is that of the third step alone
C25_Witness ==
    /\ cycles = 3 /\ Label = LEFT_TWO_FINGER_ROTATE
    /\ prevLeftPosRef = <<smoothLeftFingerCenterRef>>
    /\ smoothLeftFingerCenterRef = Pt(373, 437)
    /\ controlRef.rotationVelocity = <<Pt(-25 * ROTATION_SENSITIVITY, 49 * ROTATION_SENSITIVITY)>>

\* C26: contact entry.  A cycle publishes DUAL_HAND_CONTACT only on a frame
\* with both a Left and a Right hand; when the cached contact flag is
\* false, a both-hands frame enters contact iff its wrist distance is
\* strictly less than T_enter.
C26_ContactEntry ==
    [][cycles' = cycles + 1 =>
          /\ observer'.gesture = DUAL_HAND_CONTACT
                 => (leftHandLandmarks(result') # <<>> /\ rightHandLandmarks(result') # <<>>)
          /\ (~wasContactingRef /\ leftHandLandmarks(result') # <<>>
                  /\ rightHandLandmarks(result') # <<>>)
                 => LET enters ==
                            getDistanceSq(leftHandLandmarks(result')[1][0],
                                          rightHandLandmarks(result')[1][0])
                                < CONTACT_THRESHOLD * CONTACT_THRESHOLD
                    IN  /\ observer'.gesture = DUAL_HAND_CONTACT <=> enters
                        /\ wasContactingRef' <=> enters]_vars

\* out of contact, a both-hands frame with the wrists exactly T_enter apart
\* has not entered
C26_Witness ==
    /\ AfterCycle /\ BothHands /\ ~contactBefore
    /\ WristDistSq100 = EnterSq100
    /\ ~wasContactingRef /\ Label # DUAL_HAND_CONTACT

\* C27: after every producer cycle, frames with no hand or one hand
\* included, the cached contact flag is true iff the cycle's label was
\* DUAL_HAND_CONTACT; so a both-hands frame whose wrist distance is
\* between T_enter and T_enter x 1.3 is labelled DUAL_HAND_CONTACT only if
\* the cycle before was.
C27_FlagIsLabel ==
    /\ [](AfterCycle => (wasContactingRef <=> Label = DUAL_HAND_CONTACT))
    /\ [][(cycles' = cycles + 1 /\ observer'.gesture = DUAL_HAND_CONTACT
              /\ getDistanceSq(leftHandLandmarks(result')[1][0],
                               rightHandLandmarks(result')[1][0])
                     >= CONTACT_THRESHOLD * CONTACT_THRESHOLD)
             => Label = DUAL_HAND_CONTACT]_vars

\* C28: whenever isDragging is true after a producer cycle, panPosition
\* was written in that cycle and is the linear map of the pinch anchor as
\* the cycle left it; isDragging is never true beside a panPosition of an
\* earlier cycle.
C28_DragHasFreshPan ==
    (AfterCycle /\ controlRef.isDragging) =>
        /\ stamp.panPosition = [by |-> "producer", at |-> writes]
        /\ stamp.isDragging = stamp.panPosition
        /\ controlRef.panPosition.x = (500 - smoothRightPinchRef.x) * DRAG_SCALE_X
        /\ controlRef.panPosition.y = (500 - smoothRightPinchRef.y) * DRAG_SCALE_Y

\* a pinch, a release and a second pinch: the pan published is that of the
\* anchor re-anchored at the wrist and smoothed once
C28_Witness ==
    /\ cycles = 3 /\ controlRef.isDragging /\ hasDragged
    /\ smoothRightPinchRef = Pt(600, 530)
    /\ controlRef.panPosition = Pt(-100 * DRAG_SCALE_X, -30 * DRAG_SCALE_Y)
    /\ stamp.panPosition.at = 3

\* a point of the unit square, and a frame whose landmarks all are
InUnit(p) == 0 <= p.x /\ p.x <= 1000 /\ 0 <= p.y /\ p.y <= 1000
LandmarksInUnit(res) ==
    \A i \in 1..Len(res.landmarks) : \A k \in DOMAIN res.landmarks[i] : InUnit(res.landmarks[i][k])

\* C29: with landmark coordinates in [0, 1], both smoothing anchors stay
\* in the unit square, every published panPosition has |x| <= 0.5 x scaleX
\* and |y| <= 0.5 x scaleY, and every published rotationVelocity component
\* has magnitude at most S.
C29_Bounded ==
    /\ \A res \in Results : LandmarksInUnit(res)
    /\ InUnit(smoothRightPinchRef)
    /\ InUnit(smoothLeftFingerCenterRef)
    /\ Abs(controlRef.panPosition.x) <= 500 * DRAG_SCALE_X
    /\ Abs(controlRef.panPosition.y) <= 500 * DRAG_SCALE_Y
    /\ controlRef.rotationVelocity # <<>> =>
           /\ Abs(controlRef.rotationVelocity[1].x) <= ROTATION_SENSITIVITY * 1000
           /\ Abs(controlRef.rotationVelocity[1].y) <= ROTATION_SENSITIVITY * 1000

\* a pinch near the corner of the image: the pan is past 0.3 x scale on
\* both axes
C29_Witness ==
    /\ AfterCycle /\ controlRef.isDragging
    /\ RawPinch(RightLm) = Pt(100, 100)
    /\ smoothRightPinchRef.x < 200 /\ smoothRightPinchRef.y < 200
    /\ controlRef.panPosition.x > 300 * DRAG_SCALE_X
    /\ controlRef.panPosition.y > 300 * DRAG_SCALE_Y

C31_TeardownDuringInit ==
    \A i \in Instances :
        instances[i].tornAt \in {"resolving", "creating", "acquiring"} =>
            /\ instances[i].handLandmarkerRef # "open"
            /\ ~instances[i].stream
            /\ instances[i].ran = 0

\* the animation frames instance i has requested that are still to run
Pending(i) == Cardinality(instances[i].pending)

\* C32: the producer loop is one chain.  Every cycle is run by a mounted
\* instance and leaves exactly one requested frame; no instance ever has two
\* requested frames; a mounted instance whose loop has started always has
\* one (the loop does not stall); teardown cancels the requested frame, and
\* from then on the instance runs no cycle, and while the camera is off no
\* step is a cycle, writes the record as the producer or calls the observer.
C32_LoopChain ==
    /\ [](\A i \in Instances :
            /\ Pending(i) <= 1
            /\ instances[i].mounted /\ instances[i].phase = "looping" => Pending(i) = 1
            /\ ~instances[i].mounted => instances[i].pending = {})
    /\ [][cycles' = cycles + 1 =>
            \E i \in Instances :
                /\ instances[i].mounted
                /\ instances'[i].ran = instances[i].ran + 1
                /\ Cardinality(instances'[i].pending) = 1
                /\ \A j \in Instances \ {i} : instances'[j] = instances[j]]_vars
    /\ [][\A i \in Instances : ~instances[i].mounted =>
                                   instances'[i].ran = instances[i].ran]_vars
    /\ [][~cameraActive =>
            /\ cycles' = cycles
            /\ notified' = notified
            /\ \A f \in Fields : stamp'[f].by = "producer" => stamp'[f] = stamp[f]]_vars

\* the first instance ran a cycle and was torn down with its frame
\* cancelled; the second has run one and has its successor requested
C32_Witness ==
    /\ Len(instances) = 2
    /\ instances[1].tornAt = "looping" /\ instances[1].ran = 1
    /\ instances[1].pending = {}
    /\ instances[2].ran = 1 /\ Pending(2) = 1
    /\ cycles = 2

Contracts(o, o2) ==
    /\ Abs(20 * o2 - 19 * o) <= 10
    /\ (o >= 0 => 0 <= o2 /\ o2 <= o) /\ (o <= 0 => o <= o2 /\ o2 <= 0)
    /\ Abs(o) >= 20 => Abs(o2) < Abs(o)

\* v2 is v moved three quarters of the way to target, up to rounding
Approaches(v, target, v2) == Abs(4 * v2 - (v + 3 * target)) <= 2

\* C34: on a viewer frame that reads isDragging = false the dragged group
\* moves toward the rest pose (0, -1.2) by a twentieth of its offset on each
\* axis, whatever panPosition holds, so the offset never grows, never changes
\* side and shrinks on every such frame; on a frame that reads isDragging =
\* true it moves three quarters of the way to (panPosition.x, -1.2 +
\* panPosition.y).
C34_RestDecay ==
    [][frames' = frames + 1 =>
          IF controlRef'.isDragging
          THEN /\ Approaches(viewer.position.x, controlRef'.panPosition.x,
                             viewer'.position.x)
               /\ Approaches(viewer.position.y, REST_Y + controlRef'.panPosition.y,
                             viewer'.position.y)
          ELSE /\ Contracts(viewer.position.x, viewer'.position.x)
               /\ Contracts(viewer.position.y - REST_Y, viewer'.position.y - REST_Y)]_vars

\* C35: the model scale stays in [0.4, 6.0] whatever zoomSpeed values the
\* frames read, and a frame that reads zoomSpeed = 0 leaves the scale as it
\* was.
C35_ScaleClamped ==
    /\ [](viewer.scale >= SCALE_MIN /\ viewer.scale <= SCALE_MAX)
    /\ [][frames' = frames + 1 /\ controlRef'.zoomSpeed = 0 =>
            viewer'.scale = viewer.scale]_vars
    /\ [][frames' = frames + 1 /\ controlRef'.zoomSpeed > 0 =>
            viewer'.scale >= viewer.scale]_vars
    /\ [][frames' = frames + 1 /\ controlRef'.zoomSpeed < 0 =>
            viewer'.scale <= viewer.scale]_vars

\* a zoom-out frame read at the lower limit leaves the scale on the limit
C35_Witness ==
    /\ frames = 2
    /\ controlRef.zoomSpeed = -ZOOM_SENSITIVITY
    /\ viewer.scale = SCALE_MIN

\* the record holds a zoom rate that a voice command wrote
VoiceZoom == controlRef.zoomSpeed # 0 /\ stamp["zoomSpeed"].by = "voice"

\* every voice zoom is eventually back at zero
C36_ZoomEnds == VoiceZoom ~> controlRef.zoomSpeed = 0

\* C36: a zoom rate written by a voice command is set back to 0, and the
\* timeout that sets it back is the one the same command started: no
\* timeout of an earlier command clears the zoom of a later one.
C36_ZoomAutoStop ==
    /\ C36_ZoomEnds
    /\ [][Len(timers') < Len(timers) /\ VoiceZoom =>
            stamp["zoomSpeed"].at = Head(timers)]_vars

\* a run that has not stalled on its reader returns the flag to false
C37_SettledRunEnds == isProcessing ~> (~isProcessing \/ reconstruction = "stalled")

\* C37: every started run eventually returns isProcessing to false,
\* whichever of its steps fails, and a run starts only while isProcessing
\* is false, so at most one is in flight.
C37_ProcessingEnds ==
    /\ isProcessing ~> ~isProcessing
    /\ [][reconstruction' = "reading" /\ reconstruction # "reading" => ~isProcessing]_vars

\* the step leaves the viewed content and the control record as they were
ContentKept ==
    /\ modelUrl' = modelUrl /\ fileName' = fileName /\ urlSetAfter' = urlSetAfter
    /\ controlRef' = controlRef /\ stamp' = stamp /\ writes' = writes /\ resets' = resets

\* C38: a failed run changes neither the viewed content nor the control
\* record.  The step in which the run fails leaves the model URL, the file
\* name and the record as they were and sets the failure message; so does
\* a reader failure, without a message; and no step of a run other than the
\* model assignment after the last await touches them.
C38_FailureKeepsContent ==
    /\ [][reconstruction = "running" /\ reconstruction' = "settling" =>
            ContentKept /\ aiAnalysis' = "failed"]_vars
    /\ [][reconstruction' = "stalled" /\ reconstruction # "stalled" =>
            ContentKept /\ aiAnalysis' = aiAnalysis]_vars
    /\ [][reconstruction' # reconstruction /\ reconstruction # "stepping" =>
            ContentKept]_vars

\* a run has failed over an uploaded model and a zoom of the producer:
\* both are still in place
C38_Witness ==
    /\ reconstruction = "settling" /\ aiAnalysis = "failed"
    /\ modelUrl = "blob:local" /\ fileName = "local.glb"
    /\ controlRef.zoomSpeed = ZOOM_SENSITIVITY
    /\ stamp["zoomSpeed"].by = "producer"
    /\ resets = 1

====
